---- MODULE Spec2Model ----
(***************************************************************************)
(* A model of the CHIP-8 interpreter of src/chip8/chip8.go.                *)
(*                                                                         *)
(* The machine (type Chip8) is one record, `cpu`; every method of the      *)
(* package is an operator from machine records to machine records that     *)
(* follows the method's statements in order, with Go's integer widths      *)
(* (byte = 8 bits, uint16 = 16 bits) and Go's run-time checks (an index or *)
(* slice bound out of range panics).  A panic is not recovered anywhere in *)
(* the repository, so it ends the program: the record's `halt` field holds *)
(* the panic message and no operation acts on a halted machine.            *)
(*                                                                         *)
(* `prev` and `trace` are history variables.  `prev` is the machine as it   *)
(* was immediately before the last operation.  `trace` has one entry per   *)
(* operation performed: the operation, its argument (the program of an     *)
(* Initialize, the keys of an UpdateKeyboard), the instruction word a Step *)
(* fetched, the machine's registers before the operation, for a Dxyn the   *)
(* sprite rows it was given, and for a Dxyn or 00E0 the display before it. *)
(*                                                                         *)
(* `task` holds the positions of the tasks that the single-file variant of *)
(* the program (src/unnamed/part_001) runs beside the execution loop: the  *)
(* main loop's UpdateKeyboard and the Timers goroutine.                    *)
(***************************************************************************)
EXTENDS Integers, Sequences, FiniteSets, TLC

VARIABLES cpu, prev, trace, task

vars == <<cpu, prev, trace, task>>

\* ------------------------------------------------------------ constants

FB_WIDTH == 64
FB_HEIGHT == 32
CHIP8_PROGRAM_START == 512
DIGITS_LEN == 5
RAM_SIZE == 4096
STACK_SIZE == 16

\* ------------------------------------------------------- integer widths

Byte(n) == n % 256

Uint16(n) == n % 65536

Bit(v, k) == (v \div (2 ^ k)) % 2

RECURSIVE And(_, _)
And(a, b) ==
    IF a = 0 \/ b = 0 THEN 0
    ELSE (a % 2) * (b % 2) + 2 * And(a \div 2, b \div 2)

RECURSIVE Or(_, _)
Or(a, b) ==
    IF a = 0 THEN b
    ELSE IF b = 0 THEN a
    ELSE (IF a % 2 = 1 \/ b % 2 = 1 THEN 1 ELSE 0) + 2 * Or(a \div 2, b \div 2)

RECURSIVE Xor(_, _)
Xor(a, b) ==
    IF a = 0 THEN b
    ELSE IF b = 0 THEN a
    ELSE (((a % 2) + (b % 2)) % 2) + 2 * Xor(a \div 2, b \div 2)

\* ---------------------------------------------------------- the machine

\* new(chip8.Chip8): every field holds Go's zero value.
NewChip8 ==
    [V |-> [r \in 0..15 |-> 0],
     I |-> 0,
     PC |-> 0,
     SP |-> 0,
     DT |-> 0,
     ST |-> 0,
     STACK |-> [s \in 0..(STACK_SIZE - 1) |-> 0],
     FRAMEBUFFER |-> [p \in 0..(FB_WIDTH * FB_HEIGHT - 1) |-> FALSE],
     RAM |-> [a \in 0..(RAM_SIZE - 1) |-> 0],
     KEYBOARD |-> 0,
     halt |-> ""]

Running(c) == c.halt = ""

Panic(c, msg) == [c EXCEPT !.halt = msg]

IndexPanic == "runtime error: index out of range"

SlicePanic == "runtime error: slice bounds out of range"

BusyWait == "busy wait"

\* The digit sprites: chip8/digits.rom is read from disk by Initialize; the
\* single-file variant of the program holds the same 80 bytes inline.
Fonts ==
    <<240, 144, 144, 144, 240,  32,  96,  32,  32, 112,
      240,  16, 240, 128, 240, 240,  16, 240,  16, 240,
      144, 144, 240,  16,  16, 240, 128, 240,  16, 240,
      240, 128, 240, 144, 240, 240,  16,  32,  64,  64,
      240, 144, 240, 144, 240, 240, 144, 240,  16, 240,
      240, 144, 240, 144, 144, 224, 144, 224, 144, 224,
      240, 128, 128, 128, 240, 224, 144, 144, 144, 224,
      240, 128, 240, 128, 240, 240, 128, 240, 128, 128>>

\* The loop of copy(dst[location:], src) over bytes lo..hi-1 of src, in
\* ascending order: byte i of src goes to dst[location+i].  (The range is
\* halved, and the first half completed before the second begins, so that
\* the evaluation stays shallow; copying never changes the domain.)
RECURSIVE CopyRange(_, _, _, _, _)
CopyRange(dst, src, location, lo, hi) ==
    IF lo >= hi THEN dst
    ELSE IF hi = lo + 1 THEN [dst EXCEPT ![location + lo] = src[lo + 1]]
    ELSE LET mid == (lo + hi) \div 2
             half == CopyRange(dst, src, location, lo, mid)
         IN  IF DOMAIN half = DOMAIN dst
             THEN CopyRange(half, src, location, mid, hi)
             ELSE half

Min(a, b) == IF a <= b THEN a ELSE b

\* A copy that leaves out the last byte it should move.
CopyBytesShort(dst, src, location) ==
    CopyRange(dst, src, location, 0, Min(RAM_SIZE - location, Len(src)) - 1)

\* copy(dst[location:], src), dst of RAM_SIZE bytes: the
\* min(len(dst) - location, len(src)) bytes that fit are copied.
CopyBytes(dst, src, location) ==
    CopyRange(dst, src, location, 0, Min(RAM_SIZE - location, Len(src)))

\* copy(cpu.RAM[location:], rom[:]); the slice expression panics when
\* location > len(RAM).
LoadRom(c, rom, location) ==
    IF ~Running(c) THEN c
    ELSE IF location > RAM_SIZE THEN Panic(c, SlicePanic)
    ELSE [c EXCEPT !.RAM = CopyBytes(@, rom, location)]

Initialize(c, digits, rom) ==
    LET c1 == LoadRom(c, digits, 0)
        c2 == LoadRom(c1, rom, CHIP8_PROGRAM_START)
    IN  IF Running(c2) THEN [c2 EXCEPT !.PC = CHIP8_PROGRAM_START] ELSE c2

\* ------------------------------------------------------------- keyboard

\* IsKeyPressed numbering the latch bits from the least significant one.
IsKeyPressedLsbFirst(c, key) ==
    IF key > 15 THEN FALSE
    ELSE Bit(c.KEYBOARD, key) > 0

IsKeyPressed(c, key) ==
    IF key > 15 THEN FALSE
    ELSE Bit(c.KEYBOARD, 16 - 1 - key) > 0

IsAnyKeyPressed(c) == c.KEYBOARD > 0

\* for k := byte(0x0); k < 0xF; k++ : keys 0..14, ascending.
PressedKeys(c) ==
    LET F[k \in 0..15] ==
            IF k = 15 THEN <<>>
            ELSE (IF IsKeyPressed(c, k) THEN <<k>> ELSE <<>>) \o F[k + 1]
    IN  F[0]

\* pressedKeys: a sequence of key codes 0..15.
UpdateKeyboard(c, pressedKeys) ==
    LET F[i \in 0..Len(pressedKeys)] ==
            IF i = 0 THEN 0
            ELSE Or(F[i - 1], Uint16(2 ^ (16 - 1 - pressedKeys[i])))
    IN  [c EXCEPT !.KEYBOARD = F[Len(pressedKeys)]]

\* ---------------------------------------------------------------- stack

\* StackPush incrementing SP before the store (the order the comment at
\* 2nnn describes), against a StackPop that decrements before the load.
StackPushPreIncrement(c, value) ==
    LET sp == Byte(c.SP + 1)
        c1 == [c EXCEPT !.SP = sp]
    IN  IF sp >= STACK_SIZE THEN Panic(c1, IndexPanic)
        ELSE [c1 EXCEPT !.STACK[sp] = value]

StackPush(c, value) ==
    IF c.SP >= STACK_SIZE THEN Panic(c, IndexPanic)
    ELSE [c EXCEPT !.STACK[c.SP] = value, !.SP = Byte(c.SP + 1)]

\* StackPop indexing the stack modulo its size: no bounds check fails.
StackPopWrapped(c) ==
    LET sp == Byte(c.SP + 255) % STACK_SIZE
        c1 == [c EXCEPT !.SP = sp]
    IN  [m |-> c1, ret |-> c1.STACK[sp]]

\* The result's `ret` field is the value StackPop returns.
StackPop(c) ==
    LET sp == Byte(c.SP + 255)
        c1 == [c EXCEPT !.SP = sp]
    IN  IF sp >= STACK_SIZE
        THEN [m |-> Panic(c1, IndexPanic), ret |-> 0]
        ELSE [m |-> c1, ret |-> c1.STACK[sp]]

\* ---------------------------------------------------------------- fetch

CorruptedPC == "CORRUPTED PROGRAM COUNTER"

\* Fetch without its check of PC against the program base.
FetchUnguarded(c) ==
    IF c.PC >= RAM_SIZE \/ Uint16(c.PC + 1) >= RAM_SIZE
    THEN [m |-> Panic(c, IndexPanic), ret |-> -1]
    ELSE [m |-> [c EXCEPT !.PC = Uint16(c.PC + 2)],
          ret |-> Or(Uint16(c.RAM[c.PC] * 256), c.RAM[Uint16(c.PC + 1)])]

\* The result's `ret` field is the instruction word Fetch returns.
Fetch(c) ==
    IF c.PC < CHIP8_PROGRAM_START
    THEN [m |-> Panic(c, CorruptedPC), ret |-> -1]
    ELSE IF c.PC >= RAM_SIZE \/ Uint16(c.PC + 1) >= RAM_SIZE
    THEN [m |-> Panic(c, IndexPanic), ret |-> -1]
    ELSE [m |-> [c EXCEPT !.PC = Uint16(c.PC + 2)],
          ret |-> Or(Uint16(c.RAM[c.PC] * 256), c.RAM[Uint16(c.PC + 1)])]

\* ----------------------------------------------------------- DrawSprite

\* x := uint16(vx+index) % FB_WIDTH: the sum is a byte sum, widened after it.
SpriteX(vx, index) == Uint16(Byte(vx + index)) % FB_WIDTH

\* y := uint16(vy+byte(dy)) % FB_HEIGHT
SpriteY(vy, dy) == Uint16(Byte(vy + Byte(dy))) % FB_HEIGHT

\* The index computed in 8 bits.
SpriteLocUint8(x, y) == Byte(y * FB_WIDTH + x)

\* loc := int(y)*FB_WIDTH + int(x)
SpriteLoc(x, y) == y * FB_WIDTH + x

\* The inner loop body with the flag assigned on every set bit, so that a
\* later pixel clears it.
DrawPixelFlagAssigned(c, vx, vy, v, dy, index) ==
    LET dx == 8 - 1 - index
        pixel == Bit(v, dx) > 0
        loc == SpriteLoc(SpriteX(vx, index), SpriteY(vy, dy))
        old == c.FRAMEBUFFER[loc]
    IN  IF pixel
        THEN [c EXCEPT !.V[15] = IF old THEN 1 ELSE 0,
                       !.FRAMEBUFFER[loc] = ~old]
        ELSE c

\* The inner loop body with the sprite bit ORed onto the display.
DrawPixelOr(c, vx, vy, v, dy, index) ==
    LET dx == 8 - 1 - index
        pixel == Bit(v, dx) > 0
        loc == SpriteLoc(SpriteX(vx, index), SpriteY(vy, dy))
        old == c.FRAMEBUFFER[loc]
    IN  IF pixel
        THEN [c EXCEPT !.V[15] = IF old THEN 1 ELSE @,
                       !.FRAMEBUFFER[loc] = TRUE]
        ELSE c

\* One pass of the inner loop body, for row dy (0-based) and column index.
DrawPixel(c, vx, vy, v, dy, index) ==
    LET dx == 8 - 1 - index
        pixel == Bit(v, dx) > 0
        loc == SpriteLoc(SpriteX(vx, index), SpriteY(vy, dy))
        old == c.FRAMEBUFFER[loc]
    IN  IF pixel
        THEN [c EXCEPT !.V[15] = IF old THEN 1 ELSE @,
                       !.FRAMEBUFFER[loc] = ~old]
        ELSE c

\* The two nested loops over steps lo..hi-1, in order: step k is row
\* k \div 8, column k % 8.  (The range is halved, and the first half
\* completed before the second begins, so that the evaluation stays shallow;
\* drawing a pixel never panics.)
RECURSIVE DrawLoop(_, _, _, _, _, _)
DrawLoop(c, vx, vy, bytes, lo, hi) ==
    IF lo >= hi THEN c
    ELSE IF hi = lo + 1
    THEN DrawPixel(c, vx, vy, bytes[(lo \div 8) + 1], lo \div 8, lo % 8)
    ELSE LET mid == (lo + hi) \div 2
             half == DrawLoop(c, vx, vy, bytes, lo, mid)
         IN  IF Running(half)
             THEN DrawLoop(half, vx, vy, bytes, mid, hi)
             ELSE half

\* DrawSprite without the reset of the flag before the loops.
DrawSpriteNoReset(c, vx, vy, bytes) ==
    DrawLoop(c, vx, vy, bytes, 0, 8 * Len(bytes))

DrawSprite(c, vx, vy, bytes) ==
    DrawLoop([c EXCEPT !.V[15] = 0], vx, vy, bytes, 0, 8 * Len(bytes))

\* -------------------------------------------------------- DecodeExecute

OpX(instruction) == (instruction \div 256) % 16

OpY(instruction) == (instruction \div 16) % 16

OpKK(instruction) == instruction % 256

OpNNN(instruction) == instruction % 4096

OpN(instruction) == instruction % 16

OpTop(instruction) == instruction \div 4096

\* instruction&0xF000 == top<<12
IsTop(instruction, top) == OpTop(instruction) = top

\* The 0xF00F mask taken as 0xF000: the low nibble is not compared.
IsTopNAnyLow(instruction, top, n) == OpTop(instruction) = top

\* instruction&0xF00F == top<<12 | n
IsTopN(instruction, top, n) == OpTop(instruction) = top /\ OpN(instruction) = n

\* The 0xF0FF mask taken as 0xF00F: only the low nibble of kk is compared.
IsTopKKLowNibble(instruction, top, kk) ==
    OpTop(instruction) = top /\ OpN(instruction) = kk % 16

\* instruction&0xF0FF == top<<12 | kk
IsTopKK(instruction, top, kk) == OpTop(instruction) = top /\ OpKK(instruction) = kk

\* A clear that also resets the collision flag.
ClearDisplayAndFlag(c) ==
    [c EXCEPT !.FRAMEBUFFER = NewChip8.FRAMEBUFFER, !.V[15] = 0]

\* clear(cpu.FRAMEBUFFER[:])
ClearDisplay(c) == [c EXCEPT !.FRAMEBUFFER = NewChip8.FRAMEBUFFER]

Return(c) ==
    LET r == StackPop(c)
    IN  IF Running(r.m) THEN [r.m EXCEPT !.PC = r.ret] ELSE r.m

\* 2nnn with its two statements exchanged: PC is set, then pushed.
CallJumpFirst(c, nnn) == StackPush([c EXCEPT !.PC = nnn], nnn)

Call(c, nnn) ==
    LET c1 == StackPush(c, c.PC)
    IN  IF Running(c1) THEN [c1 EXCEPT !.PC = nnn] ELSE c1

\* The skip taken whatever the comparison gave.
SkipIfAlways(c, cond) == [c EXCEPT !.PC = Uint16(c.PC + 2)]

SkipIf(c, cond) == IF cond THEN [c EXCEPT !.PC = Uint16(c.PC + 2)] ELSE c

\* 8xy4: the flag is written, then V[x].
AddRegisters(c, x, y) ==
    LET sum == c.V[x] + c.V[y]
        c1 == [c EXCEPT !.V[15] = IF sum > 255 THEN 1 ELSE 0]
    IN  [c1 EXCEPT !.V[x] = Byte(sum)]

\* 8xy5 with the two stores in the order of 8xy4: the flag first, then V[x].
SubRegistersFlagFirst(c, x, y) ==
    LET vx == c.V[x]
        vy == c.V[y]
        c1 == [c EXCEPT !.V[15] = IF vx >= vy THEN 1 ELSE 0]
    IN  [c1 EXCEPT !.V[x] = Byte(vx - vy + 256)]

\* 8xy5: V[x] is written, then the flag.
SubRegisters(c, x, y) ==
    LET vx == c.V[x]
        vy == c.V[y]
        c1 == [c EXCEPT !.V[x] = Byte(vx - vy + 256)]
    IN  [c1 EXCEPT !.V[15] = IF vx >= vy THEN 1 ELSE 0]

\* 8xy7
SubnRegisters(c, x, y) ==
    LET vx == c.V[x]
        vy == c.V[y]
        c1 == [c EXCEPT !.V[x] = Byte(vy - vx + 256)]
    IN  [c1 EXCEPT !.V[15] = IF vy >= vx THEN 1 ELSE 0]

\* 8xy6 with the two stores exchanged: the flag first, then V[x].
ShiftRightFlagFirst(c, x) ==
    LET vx == c.V[x]
        c1 == [c EXCEPT !.V[15] = vx % 2]
    IN  [c1 EXCEPT !.V[x] = vx \div 2]

\* 8xy6
ShiftRight(c, x) ==
    LET vx == c.V[x]
        c1 == [c EXCEPT !.V[x] = vx \div 2]
    IN  [c1 EXCEPT !.V[15] = vx % 2]

\* 8xyE
ShiftLeft(c, x) ==
    LET vx == c.V[x]
        c1 == [c EXCEPT !.V[x] = Byte(vx * 2)]
    IN  [c1 EXCEPT !.V[15] = (vx \div 128) % 2]

\* Dxyn: cpu.RAM[cpu.I:(cpu.I+n)] is sliced (bounds checked) before the call.
Draw(c, x, y, n) ==
    LET lo == c.I
        hi == Uint16(c.I + n)
    IN  IF hi > RAM_SIZE \/ lo > hi THEN Panic(c, SlicePanic)
        ELSE DrawSprite(c, c.V[x], c.V[y], [i \in 1..n |-> c.RAM[lo + i - 1]])

\* Fx0A: the loop spins while no key is held.
WaitKey(c, x) ==
    IF ~IsAnyKeyPressed(c) THEN [c EXCEPT !.halt = BusyWait]
    ELSE LET keys == PressedKeys(c)
         IN  IF Len(keys) = 0 THEN Panic(c, IndexPanic)
             ELSE [c EXCEPT !.V[x] = keys[1]]

\* Fx33 with the tens digit left unreduced: (v / 10) stored, not (v / 10) % 10.
StoreBCDTens(c, x) ==
    LET a0 == c.I
        a1 == Uint16(c.I + 1)
        a2 == Uint16(c.I + 2)
        v == c.V[x]
    IN  IF a0 >= RAM_SIZE \/ a1 >= RAM_SIZE \/ a2 >= RAM_SIZE
        THEN Panic(c, IndexPanic)
        ELSE [c EXCEPT !.RAM[a0] = v \div 100,
                       !.RAM[a1] = v \div 10,
                       !.RAM[a2] = v % 10]

\* Fx33: three indexed stores, each bounds checked when it is reached.
StoreBCD(c, x) ==
    LET a0 == c.I
        a1 == Uint16(c.I + 1)
        a2 == Uint16(c.I + 2)
        v == c.V[x]
    IN  IF a0 >= RAM_SIZE THEN Panic(c, IndexPanic)
        ELSE LET c1 == [c EXCEPT !.RAM[a0] = v \div 100]
             IN  IF a1 >= RAM_SIZE THEN Panic(c1, IndexPanic)
                 ELSE LET c2 == [c1 EXCEPT !.RAM[a1] = (v \div 10) % 10]
                      IN  IF a2 >= RAM_SIZE THEN Panic(c2, IndexPanic)
                          ELSE [c2 EXCEPT !.RAM[a2] = v % 10]

\* Fx55 with an exclusive upper bound: registers 0..x-1 are stored.
StoreRegistersExclusive(c, x) ==
    LET lo == c.I
        hi == Uint16(c.I + x)
    IN  IF hi > RAM_SIZE \/ lo > hi THEN Panic(c, SlicePanic)
        ELSE [c EXCEPT !.RAM = CopyBytes(@, [i \in 1..x |-> c.V[i - 1]], lo)]

\* Fx55: copy(cpu.RAM[cpu.I:cpu.I+x+1], cpu.V[0:x+1])
StoreRegisters(c, x) ==
    LET lo == c.I
        hi == Uint16(c.I + x + 1)
    IN  IF hi > RAM_SIZE \/ lo > hi THEN Panic(c, SlicePanic)
        ELSE [c EXCEPT !.RAM =
                CopyBytes(@, [i \in 1..(x + 1) |-> c.V[i - 1]], lo)]

\* Fx65: copy(cpu.V[0:x+1], cpu.RAM[cpu.I:cpu.I+x+1])
LoadRegisters(c, x) ==
    LET lo == c.I
        hi == Uint16(c.I + x + 1)
    IN  IF hi > RAM_SIZE \/ lo > hi THEN Panic(c, SlicePanic)
        ELSE [c EXCEPT !.V =
                [r \in 0..15 |-> IF r <= x THEN c.RAM[lo + r] ELSE @[r]]]

\* Fx07 with its operands exchanged: DT is set from V[x].
LoadDelayTimerSwapped(c, x) == [c EXCEPT !.DT = c.V[x]]

\* Fx07: cpu.V[x] = cpu.DT
LoadDelayTimer(c, x) == [c EXCEPT !.V[x] = c.DT]

\* Fx29 with the product taken in 8 bits: uint16(cpu.V[x] * DIGITS_LEN).
FontAddressByte(c, x) == [c EXCEPT !.I = Byte(c.V[x] * DIGITS_LEN)]

\* Fx29: cpu.I = uint16(cpu.V[x]) * DIGITS_LEN
FontAddress(c, x) == [c EXCEPT !.I = Uint16(c.V[x] * DIGITS_LEN)]

\* The conditions of DecodeExecute, in the order it tries them: the two
\* cases of the switch, then the branches of the if / else-if chain.
Rules(instruction) ==
    <<instruction = 224,
      instruction = 238,
      IsTop(instruction, 1),
      IsTop(instruction, 2),
      IsTop(instruction, 3),
      IsTop(instruction, 4),
      IsTopN(instruction, 5, 0),
      IsTop(instruction, 6),
      IsTop(instruction, 7),
      IsTopN(instruction, 8, 0),
      IsTopN(instruction, 8, 1),
      IsTopN(instruction, 8, 2),
      IsTopN(instruction, 8, 3),
      IsTopN(instruction, 8, 4),
      IsTopN(instruction, 8, 5),
      IsTopN(instruction, 8, 6),
      IsTopN(instruction, 8, 7),
      IsTopN(instruction, 8, 14),
      IsTopN(instruction, 9, 0),
      IsTop(instruction, 10),
      IsTop(instruction, 11),
      IsTop(instruction, 12),
      IsTop(instruction, 13),
      IsTopKK(instruction, 14, 158),
      IsTopKK(instruction, 14, 161),
      IsTopKK(instruction, 15, 7),
      IsTopKK(instruction, 15, 10),
      IsTopKK(instruction, 15, 21),
      IsTopKK(instruction, 15, 24),
      IsTopKK(instruction, 15, 30),
      IsTopKK(instruction, 15, 41),
      IsTopKK(instruction, 15, 51),
      IsTopKK(instruction, 15, 85),
      IsTopKK(instruction, 15, 101)>>

\* rnd is the value of rand.Intn(256), read by Cxkk alone.
DecodeExecute(c, instruction, rnd) ==
    LET x == OpX(instruction)
        y == OpY(instruction)
        kk == OpKK(instruction)
        nnn == OpNNN(instruction)
    IN  IF instruction = 224 THEN ClearDisplay(c)                  \* 00E0
        ELSE IF instruction = 238 THEN Return(c)                   \* 00EE
        ELSE IF IsTop(instruction, 1) THEN [c EXCEPT !.PC = nnn]
        ELSE IF IsTop(instruction, 2) THEN Call(c, nnn)
        ELSE IF IsTop(instruction, 3) THEN SkipIf(c, c.V[x] = kk)
        ELSE IF IsTop(instruction, 4) THEN SkipIf(c, c.V[x] # kk)
        ELSE IF IsTopN(instruction, 5, 0) THEN SkipIf(c, c.V[x] = c.V[y])
        ELSE IF IsTop(instruction, 6) THEN [c EXCEPT !.V[x] = kk]
        ELSE IF IsTop(instruction, 7) THEN [c EXCEPT !.V[x] = Byte(@ + kk)]
        ELSE IF IsTopN(instruction, 8, 0) THEN [c EXCEPT !.V[x] = c.V[y]]
        ELSE IF IsTopN(instruction, 8, 1) THEN [c EXCEPT !.V[x] = Or(@, c.V[y])]
        ELSE IF IsTopN(instruction, 8, 2) THEN [c EXCEPT !.V[x] = And(@, c.V[y])]
        ELSE IF IsTopN(instruction, 8, 3) THEN [c EXCEPT !.V[x] = Xor(@, c.V[y])]
        ELSE IF IsTopN(instruction, 8, 4) THEN AddRegisters(c, x, y)
        ELSE IF IsTopN(instruction, 8, 5) THEN SubRegisters(c, x, y)
        ELSE IF IsTopN(instruction, 8, 6) THEN ShiftRight(c, x)
        ELSE IF IsTopN(instruction, 8, 7) THEN SubnRegisters(c, x, y)
        ELSE IF IsTopN(instruction, 8, 14) THEN ShiftLeft(c, x)
        ELSE IF IsTopN(instruction, 9, 0) THEN SkipIf(c, c.V[y] # c.V[x])
        ELSE IF IsTop(instruction, 10) THEN [c EXCEPT !.I = nnn]
        ELSE IF IsTop(instruction, 11) THEN [c EXCEPT !.PC = Uint16(nnn + c.V[0])]
        ELSE IF IsTop(instruction, 12) THEN [c EXCEPT !.V[x] = And(Byte(rnd), kk)]
        ELSE IF IsTop(instruction, 13) THEN Draw(c, x, y, OpN(instruction))
        ELSE IF IsTopKK(instruction, 14, 158)                       \* Ex9E
             THEN SkipIf(c, IsKeyPressed(c, c.V[x]))
        ELSE IF IsTopKK(instruction, 14, 161)                       \* ExA1
             THEN SkipIf(c, ~IsKeyPressed(c, c.V[x]))
        ELSE IF IsTopKK(instruction, 15, 7) THEN LoadDelayTimer(c, x)
        ELSE IF IsTopKK(instruction, 15, 10) THEN WaitKey(c, x)
        ELSE IF IsTopKK(instruction, 15, 21) THEN [c EXCEPT !.DT = c.V[x]]
        ELSE IF IsTopKK(instruction, 15, 24) THEN [c EXCEPT !.ST = c.V[x]]
        ELSE IF IsTopKK(instruction, 15, 30)
             THEN [c EXCEPT !.I = Uint16(@ + c.V[x])]
        ELSE IF IsTopKK(instruction, 15, 41) THEN FontAddress(c, x)
        ELSE IF IsTopKK(instruction, 15, 51) THEN StoreBCD(c, x)
        ELSE IF IsTopKK(instruction, 15, 85) THEN StoreRegisters(c, x)
        ELSE IF IsTopKK(instruction, 15, 101) THEN LoadRegisters(c, x)
        ELSE c

\* UpdateTimers without the two guards: a timer at 0 wraps to 255.
UpdateTimersUnguarded(c) ==
    [c EXCEPT !.ST = Byte(@ + 255), !.DT = Byte(@ + 255)]

UpdateTimers(c) ==
    LET c1 == IF c.ST > 0 THEN [c EXCEPT !.ST = @ - 1] ELSE c
    IN  IF c1.DT > 0 THEN [c1 EXCEPT !.DT = @ - 1] ELSE c1

\* Step: Fetch, then DecodeExecute of the word fetched.
Step(c, rnd) ==
    LET f == Fetch(c)
    IN  IF Running(f.m) THEN DecodeExecute(f.m, f.ret, rnd) ELSE f.m


\* ------------------------------------------------------------- programs

\* A program as Initialize reads it from a .ch8 file: the instruction words
\* in big-endian byte order, followed by data bytes.
ProgramBytes(words) ==
    [i \in 1..(2 * Len(words)) |->
        IF i % 2 = 1 THEN words[(i + 1) \div 2] \div 256
        ELSE words[i \div 2] % 256]

EncXYN(top, x, y, n) == top * 4096 + x * 256 + y * 16 + n

EncXKK(top, x, kk) == top * 4096 + x * 256 + kk

EncNNN(top, nnn) == top * 4096 + nnn

\* Bounds of the sampled inputs.
ByteEdge == 1
RegEdge == 1

\* 8-bit operand values: both ends of the range and the sign-bit boundary.
ByteSamples == (0..ByteEdge) \cup ((255 - ByteEdge)..255) \cup {127, 128}

\* Register indices: the low registers and the top ones, VF among them.
RegSamples == (0..RegEdge) \cup ((15 - RegEdge)..15)

\* Values rand.Intn(256) is taken to return.
RandSamples == {0, 255, 165}

\* ------------------------------------------------------------- actions

Last == trace[Len(trace)]

Initialized == trace # <<>>

\* The fields of the machine other than its memory and display.
Registers(c) ==
    [V |-> c.V, I |-> c.I, PC |-> c.PC, SP |-> c.SP, DT |-> c.DT, ST |-> c.ST,
     STACK |-> c.STACK, KEYBOARD |-> c.KEYBOARD, halt |-> c.halt]

\* The n bytes Dxyn slices from memory at I, when the slice is in range.
SpriteRows(c, instruction) ==
    IF c.I + OpN(instruction) <= RAM_SIZE
    THEN [i \in 1..OpN(instruction) |-> c.RAM[c.I + i - 1]]
    ELSE <<>>

\* The trace entry of an operation performed on machine c.
Entry(op, instruction, c) ==
    [op |-> op,
     instr |-> instruction,
     pre |-> Registers(c),
     rows |-> IF instruction >= 0 /\ IsTop(instruction, 13)
              THEN SpriteRows(c, instruction) ELSE <<>>,
     display |-> IF instruction = 224 \/ (instruction >= 0 /\ IsTop(instruction, 13))
                 THEN c.FRAMEBUFFER ELSE <<>>,
     arg |-> <<>>]

\* The trace entry of an operation that takes an argument.
EntryArg(op, arg, c) == [Entry(op, -1, c) EXCEPT !.arg = arg]

\* No task is inside UpdateKeyboard or inside the body of the Timers loop,
\* and the execution loop is between two Steps.
IdleTasks ==
    [keys |-> <<>>, kpos |-> -1, tpos |-> "idle", tmp |-> 0,
     cpos |-> -1, wpos |-> "run"]

\* main: cpu.Initialize(rom), once, on the freshly allocated machine.
DoInitialize(rom) ==
    /\ trace = <<>>
    /\ cpu' = Initialize(cpu, Fonts, rom)
    /\ prev' = cpu
    /\ trace' = <<EntryArg("Initialize", rom, cpu)>>
    /\ UNCHANGED task

\* The values rand.Intn may return to the Step about to run.
RandFor(c) ==
    LET f == Fetch(c)
    IN  IF Running(f.m) /\ IsTop(f.ret, 12) THEN RandSamples ELSE {0}

\* One cpu.Step() of the execution loop; `bound` caps the number of
\* operations performed.
DoStep(bound) ==
    /\ Initialized
    /\ Len(trace) < bound
    /\ Running(cpu)
    /\ \E rnd \in RandFor(cpu) :
          cpu' = Step(cpu, rnd)
    /\ prev' = cpu
    /\ trace' = Append(trace, Entry("Step", Fetch(cpu).ret, cpu))
    /\ UNCHANGED task

\* The driver's frame: cpu.UpdateKeyboard(PressedKeys()), between two Steps.
\* UpdateKeyboard begins by clearing the latch, so of two snapshots in a row
\* only the second is left: runs have a Step between two snapshots.
DoUpdateKeyboard(pressedKeys, bound) ==
    /\ Initialized
    /\ Len(trace) < bound
    /\ Running(cpu)
    /\ Last.op # "UpdateKeyboard"
    /\ cpu' = UpdateKeyboard(cpu, pressedKeys)
    /\ prev' = cpu
    /\ trace' = Append(trace, EntryArg("UpdateKeyboard", pressedKeys, cpu))
    /\ UNCHANGED task

\* One cpu.UpdateTimers() of the 60 Hz ticker, between two Steps.
DoUpdateTimers(bound) ==
    /\ Initialized
    /\ Len(trace) < bound
    /\ Running(cpu)
    /\ cpu' = UpdateTimers(cpu)
    /\ prev' = cpu
    /\ trace' = Append(trace, Entry("UpdateTimers", -1, cpu))
    /\ UNCHANGED task

Init ==
    /\ cpu = NewChip8
    /\ prev = NewChip8
    /\ trace = <<>>
    /\ task = IdleTasks

\* The registers after operation k of the trace.
After(k) == IF k = Len(trace) THEN Registers(cpu) ELSE trace[k + 1].pre

\* ------------------------------------------- arithmetic: 8xy4 .. 8xyE

AluSteps == 4

\* LD Vx, a; LD Vy, b; then one register-register operation on (x, y).
AluProgram(x, y, a, b, k) ==
    ProgramBytes(<<EncXKK(6, x, a), EncXKK(6, y, b), EncXYN(8, x, y, k)>>)

\* LD Vx, a; LD Vy, b; then the word w, a comparison of Vx.
SkipProgram(x, y, a, b, w) ==
    ProgramBytes(<<EncXKK(6, x, a), EncXKK(6, y, b), w>>)

\* 5xy0 and 9xy0 on every sampled pair of registers and values; 3xkk and
\* 4xkk on every sampled register, value and kk.
SkipRoms ==
    {SkipProgram(x, y, a, b, EncXYN(top, x, y, 0)) :
        x \in RegSamples, y \in RegSamples,
        a \in ByteSamples, b \in ByteSamples, top \in {5, 9}}
    \cup {SkipProgram(x, x, a, a, EncXKK(top, x, kk)) :
        x \in RegSamples, a \in ByteSamples, kk \in ByteSamples, top \in {3, 4}}

AluRoms ==
    {AluProgram(x, y, a, b, k) :
        x \in RegSamples, y \in RegSamples,
        a \in ByteSamples, b \in ByteSamples, k \in {4, 5, 6, 7, 14}}
    \cup SkipRoms

InitializeAlu == ~Initialized /\ \E rom \in AluRoms : DoInitialize(rom)

StepAlu == DoStep(AluSteps)

NextAlu == InitializeAlu \/ StepAlu

SpecAlu == Init /\ [][NextAlu]_vars

\* The last operation was a Step that decoded a word w with
\* w & 0xF00F = 0x8000 | n and returned.
Executed8(n) ==
    /\ Initialized
    /\ Last.op = "Step"
    /\ IsTopN(Last.instr, 8, n)
    /\ Running(cpu)

\* C1 (as claimed): after 8xy4 on a = V[x], b = V[y], VF = 1 if a+b > 255
\* and 0 otherwise, for every x including x = 0xF, and V[x] = (a+b) mod 256
\* when x # 0xF.
C1_AddCarry ==
    Executed8(4) =>
        LET x == OpX(Last.instr)
            y == OpY(Last.instr)
            a == Last.pre.V[x]
            b == Last.pre.V[y]
        IN  /\ cpu.V[15] = (IF a + b > 255 THEN 1 ELSE 0)
            /\ x # 15 => cpu.V[x] = (a + b) % 256

DrawSteps == 10

\* Word number k (0-based) of a program of `words` instruction words is at
\* this address; the data bytes follow the last word.
WordAddr(k) == CHIP8_PROGRAM_START + 2 * k

\* LD Vx, vx; LD Vy, vy; draw the background bg at (Vx, Vy); draw the
\* sprite spr at (Vx, Vy), twice; clear the display; draw spr again.
DrawProgram(x, y, vx, vy, bg, spr) ==
    ProgramBytes(<<EncXKK(6, x, vx),
                   EncXKK(6, y, vy),
                   EncNNN(10, WordAddr(9)),
                   EncXYN(13, x, y, Len(bg)),
                   EncNNN(10, WordAddr(9) + Len(bg)),
                   EncXYN(13, x, y, Len(spr)),
                   EncXYN(13, x, y, Len(spr)),
                   224,
                   EncXYN(13, x, y, Len(spr))>>) \o bg \o spr

\* Sprite origins (vx, vy): on the display, across its right and bottom
\* edges, and where vx+7 and vy+dy pass 255.
Origins == {<<0, 0>>, <<60, 0>>, <<60, 30>>, <<63, 31>>, <<250, 255>>}

Backgrounds == {<<0>>, <<15>>, <<255, 255>>}

Sprites ==
    {<<>>, <<255>>, <<0, 0>>, <<129, 0, 60>>,
     [i \in 1..15 |-> (i * 37) % 256]}

DrawRoms ==
    {DrawProgram(x, y, o[1], o[2], bg, spr) :
        x \in RegSamples, y \in RegSamples, o \in Origins,
        bg \in Backgrounds, spr \in Sprites}

InitializeDraw == ~Initialized /\ \E rom \in DrawRoms : DoInitialize(rom)

StepDraw == DoStep(DrawSteps)

NextDraw == InitializeDraw \/ StepDraw

SpecDraw == Init /\ [][NextDraw]_vars

\* Operation k of the trace was a Step that decoded a Dxyn and returned.
DrewAt(k) ==
    /\ k \in 1..Len(trace)
    /\ trace[k].op = "Step"
    /\ IsTop(trace[k].instr, 13)
    /\ Running(After(k))

\* What Dxyn at operation k was given: the origin and the n sprite rows.
DrawVx(k) == trace[k].pre.V[OpX(trace[k].instr)]

DrawVy(k) == trace[k].pre.V[OpY(trace[k].instr)]

DrawRows(k) == trace[k].rows

\* The pixels a sprite's set bits are XORed onto, with the sums vx+dx and
\* vy+dy taken in the integers: bit dx, most significant first, of row dy.
SpriteHits(vx, vy, rows) ==
    {((vy + dy) % FB_HEIGHT) * FB_WIDTH + ((vx + dx) % FB_WIDTH) :
        <<dx, dy>> \in {h \in (0..7) \X (0..(Len(rows) - 1)) :
                            Bit(rows[h[2] + 1], 7 - h[1]) = 1}}

Pixels == 0..(FB_WIDTH * FB_HEIGHT - 1)

\* C3: Dxyn XORs bit dx (most significant first) of row dy onto the pixel at
\* column (vx+dx) mod 64, row (vy+dy) mod 32, the sums untruncated, and
\* changes no other pixel.  (With n <= 15 rows of 8 bits no pixel is hit
\* twice, so the pixels changed are exactly the pixels hit.)
C3_SpriteWrap ==
    DrewAt(Len(trace)) =>
        LET hits == SpriteHits(DrawVx(Len(trace)), DrawVy(Len(trace)),
                               DrawRows(Len(trace)))
        IN  cpu.FRAMEBUFFER =
                [p \in Pixels |->
                    IF p \in hits THEN ~prev.FRAMEBUFFER[p]
                    ELSE prev.FRAMEBUFFER[p]]

\* An all-set 8x1 sprite drawn at (60, 0) on a blank display lit columns
\* 60..63 and 0..3 of row 0 and nothing else.
C3_Witness ==
    /\ DrewAt(Len(trace))
    /\ DrawVx(Len(trace)) = 60
    /\ DrawVy(Len(trace)) = 0
    /\ DrawRows(Len(trace)) = <<255>>
    /\ \A p \in Pixels : ~prev.FRAMEBUFFER[p]
    /\ \A p \in Pixels : cpu.FRAMEBUFFER[p] <=> p \in {60, 61, 62, 63, 0, 1, 2, 3}

\* Some set bit of the sprite drawn at operation k landed on a pixel that
\* is lit in display fb.
HitsLit(k, fb) ==
    \E p \in SpriteHits(DrawVx(k), DrawVy(k), DrawRows(k)) : fb[p]

\* C4: after any Dxyn that returns, VF = 1 iff a pixel lit before the draw
\* was XORed with a set sprite bit, and VF = 0 otherwise, whatever VF held
\* before; a later row does not clear it.
C4_Collision ==
    DrewAt(Len(trace)) =>
        cpu.V[15] = (IF HitsLit(Len(trace), prev.FRAMEBUFFER) THEN 1 ELSE 0)

\* A three-row sprite collided in its first row only, on a machine whose VF
\* was 0, and VF is 1.
C4_Witness ==
    /\ DrewAt(Len(trace))
    /\ Len(DrawRows(Len(trace))) = 3
    /\ Last.pre.V[15] = 0
    /\ HitsLit(Len(trace), prev.FRAMEBUFFER)
    /\ ~\E p \in SpriteHits(DrawVx(Len(trace)), DrawVy(Len(trace)) + 1,
                            Tail(DrawRows(Len(trace)))) :
            prev.FRAMEBUFFER[p]
    /\ cpu.V[15] = 1

\* The last two operations were the same Dxyn, x and y not 0xF, with I, the
\* sprite bytes, V[x] and V[y] the same at both.
DrewTwice ==
    /\ Len(trace) >= 2
    /\ DrewAt(Len(trace) - 1)
    /\ DrewAt(Len(trace))
    /\ trace[Len(trace) - 1].instr = Last.instr
    /\ OpX(Last.instr) # 15
    /\ OpY(Last.instr) # 15
    /\ trace[Len(trace) - 1].pre.I = Last.pre.I
    /\ DrawRows(Len(trace) - 1) = DrawRows(Len(trace))
    /\ DrawVx(Len(trace) - 1) = DrawVx(Len(trace))
    /\ DrawVy(Len(trace) - 1) = DrawVy(Len(trace))

\* The sprite has at least one set bit.
HasSetBit(rows) == \E i \in 1..Len(rows) : rows[i] # 0

\* C5 (as claimed): the second of two equal draws restores the display, and
\* leaves VF = 1 iff the sprite has at least one set bit.
C5_DoubleDrawAsClaimed ==
    DrewTwice =>
        /\ cpu.FRAMEBUFFER = trace[Len(trace) - 1].display
        /\ cpu.V[15] = 1 <=> HasSetBit(DrawRows(Len(trace)))

\* C5 (amended): the second of two equal draws restores the display, and
\* leaves VF = 1 iff some set bit of the sprite lands on a pixel that was
\* unlit before the first draw (lit by the first draw), else VF = 0.
C5_DoubleDraw ==
    DrewTwice =>
        /\ cpu.FRAMEBUFFER = trace[Len(trace) - 1].display
        /\ cpu.V[15] =
             (IF \E p \in SpriteHits(DrawVx(Len(trace)), DrawVy(Len(trace)),
                                     DrawRows(Len(trace))) :
                    ~trace[Len(trace) - 1].display[p]
              THEN 1 ELSE 0)

\* A sprite was drawn twice over a display it partly overlapped: both draws
\* collided, and the display, lit before, is as it was.
C5_Witness ==
    /\ DrewTwice
    /\ \E p \in Pixels : cpu.FRAMEBUFFER[p]
    /\ prev.FRAMEBUFFER # cpu.FRAMEBUFFER
    /\ Last.pre.V[15] = 1
    /\ cpu.V[15] = 1

\* The n rows drawn at operation k are all zero.
ZeroSprite(k) == \A i \in 1..Len(DrawRows(k)) : DrawRows(k)[i] = 0

\* C6: a Dxyn whose n sprite bytes are all zero leaves every pixel unchanged
\* and VF = 0; 00E0 sets every pixel to false, so such a draw right after
\* 00E0 leaves the display entirely unlit.
C6_ZeroSprite ==
    /\ (DrewAt(Len(trace)) /\ ZeroSprite(Len(trace))) =>
          /\ cpu.FRAMEBUFFER = prev.FRAMEBUFFER
          /\ cpu.V[15] = 0
    /\ (Initialized /\ Last.op = "Step" /\ Last.instr = 224) =>
          \A p \in Pixels : ~cpu.FRAMEBUFFER[p]
    /\ (/\ DrewAt(Len(trace))
        /\ ZeroSprite(Len(trace))
        /\ Len(trace) >= 2
        /\ trace[Len(trace) - 1].op = "Step"
        /\ trace[Len(trace) - 1].instr = 224) =>
          \A p \in Pixels : ~cpu.FRAMEBUFFER[p]

\* A lit display was cleared by 00E0, then a two-row all-zero sprite was
\* drawn: the display is unlit and VF is 0.
C6_Witness ==
    /\ DrewAt(Len(trace))
    /\ ZeroSprite(Len(trace))
    /\ Len(DrawRows(Len(trace))) = 2
    /\ Len(trace) >= 2
    /\ trace[Len(trace) - 1].instr = 224
    /\ \E p \in Pixels : trace[Len(trace) - 1].display[p]
    /\ \A p \in Pixels : ~cpu.FRAMEBUFFER[p]
    /\ cpu.V[15] = 0

\* ----------------------------------------------- memory: Fx33, Fx55, Fx65

MemSteps == 9

\* Values of I: in free memory, in the font area, and at the top of memory.
BcdAddrs == {768, 0, 4093, 4094, 4095}

BcdValues == ByteSamples \cup {7, 99, 100, 199, 200}

\* LD Vx, v; LD I, nnn; LD B, Vx.
BcdProgram(x, v, nnn) ==
    ProgramBytes(<<EncXKK(6, x, v), EncNNN(10, nnn), EncXKK(15, x, 51)>>)

BcdRoms ==
    {BcdProgram(x, v, nnn) : x \in RegSamples, v \in BcdValues, nnn \in BcdAddrs}

\* Sixteen register values, all different.
RegPattern(s) == [i \in 1..16 |-> (i * 17 + s) % 256]

\* Load V0..VF from the data bytes; LD I, nnn; store V0..Vx at I; overwrite
\* V0, Vx and a register between them; load V0..Vx from I.
RoundTripProgram(x, nnn, s, kk) ==
    ProgramBytes(<<EncNNN(10, WordAddr(8)),
                   EncXKK(15, 15, 101),
                   EncNNN(10, nnn),
                   EncXKK(15, x, 85),
                   EncXKK(6, 0, kk),
                   EncXKK(6, x, kk),
                   EncXKK(7, x \div 2, kk),
                   EncXKK(15, x, 101)>>) \o RegPattern(s)

RoundTripRoms ==
    {RoundTripProgram(x, nnn, s, 170) :
        x \in 0..15, nnn \in {768, 0, 4095}, s \in {3, 200}}
    \cup {RoundTripProgram(x, 4095 - x, 3, 170) : x \in 0..15}

\* LD Vx, v; LD F, Vx: for every byte v.
FontRoms ==
    {ProgramBytes(<<EncXKK(6, x, v), EncXKK(15, x, 41)>>) :
        x \in RegSamples, v \in 0..255}

InitializeMem ==
    /\ ~Initialized
    /\ \E rom \in BcdRoms \cup RoundTripRoms \cup FontRoms : DoInitialize(rom)

StepMem == DoStep(MemSteps)

NextMem == InitializeMem \/ StepMem

SpecMem == Init /\ [][NextMem]_vars

\* Operation k of the trace was a Step that decoded Fx<kk> and returned.
ExecutedF(k, kk) ==
    /\ k \in 1..Len(trace)
    /\ trace[k].op = "Step"
    /\ IsTopKK(trace[k].instr, 15, kk)
    /\ Running(After(k))

\* Operation j loads V0..Vx from I after operation i stored V0..Vx at the
\* same I, the operations between them being instructions that write
\* registers V0..VF only (6xkk, 7xkk, 8xy_, Cxkk).
RoundTrip(i, j) ==
    /\ i < j
    /\ ExecutedF(i, 85)
    /\ ExecutedF(j, 101)
    /\ OpX(trace[i].instr) = OpX(trace[j].instr)
    /\ trace[i].pre.I + OpX(trace[i].instr) <= 4095
    /\ \A k \in i..j : trace[k].pre.I = trace[i].pre.I
    /\ \A k \in (i + 1)..(j - 1) :
          /\ trace[k].op = "Step"
          /\ OpTop(trace[k].instr) \in {6, 7, 8, 12}

\* C7: Fx55 then Fx65 with the same x and I yields V[0..x], x included, as
\* they were before Fx55, whatever was written to V[0..x] in between, for
\* every x in 0..15 and every I with I+x <= 4095.
C7_RegisterRoundTrip ==
    \A i \in 1..Len(trace) :
        RoundTrip(i, Len(trace)) =>
            \A r \in 0..OpX(Last.instr) : cpu.V[r] = trace[i].pre.V[r]

\* All sixteen registers were stored at I = 4080, V0 and VF were
\* overwritten, and the load brought sixteen different values back.
C7_Witness ==
    \E i \in 1..Len(trace) :
        /\ RoundTrip(i, Len(trace))
        /\ OpX(Last.instr) = 15
        /\ Last.pre.I = 4080
        /\ Last.pre.V[0] # trace[i].pre.V[0]
        /\ Last.pre.V[15] # trace[i].pre.V[15]
        /\ cpu.V = trace[i].pre.V
        /\ Cardinality({cpu.V[r] : r \in 0..15}) = 16

\* C8: Fx33 with v = V[x] and I+2 <= 4095 leaves RAM[I] = v div 100,
\* RAM[I+1] = (v div 10) mod 10, RAM[I+2] = v mod 10, and changes no other
\* memory byte, no register and not I.
C8_StoreBCD ==
    (ExecutedF(Len(trace), 51) /\ Last.pre.I + 2 <= 4095) =>
        LET v == Last.pre.V[OpX(Last.instr)]
            a == Last.pre.I
        IN  /\ cpu.RAM = [prev.RAM EXCEPT ![a] = v \div 100,
                                             ![a + 1] = (v \div 10) % 10,
                                             ![a + 2] = v % 10]
            /\ cpu.V = Last.pre.V
            /\ cpu.I = Last.pre.I

\* 255 was stored as 2, 5, 5 in the last three bytes of memory.
C8_Witness ==
    /\ ExecutedF(Len(trace), 51)
    /\ Last.pre.V[OpX(Last.instr)] = 255
    /\ Last.pre.I = 4093
    /\ <<cpu.RAM[4093], cpu.RAM[4094], cpu.RAM[4095]>> = <<2, 5, 5>>
    /\ prev.RAM[4094] = 0

\* ------------------------------------------------- stack: 2nnn, 00EE

\* Nesting depths tried: up to one more than the stack holds.
MaxDepth == 17

StackSteps == 2 * MaxDepth + 2

\* d nested calls, each to the address 4 bytes on; the word after each call
\* and the word the last call reaches are returns:
\*   0x200: CALL 0x204   0x202: RET   0x204: CALL 0x208   0x206: RET  ...
\* so that d calls are followed by d returns, and then by one more return.
CallProgram(d) ==
    ProgramBytes([j \in 1..(2 * d + 1) |->
                    IF j % 2 = 1 /\ j < 2 * d + 1
                    THEN EncNNN(2, WordAddr(j + 1))
                    ELSE 238])

\* Two nested calls that reach the word w, for every word 0x0kk .. 0xFkk:
\*   0x200: CALL 0x204   0x202: RET   0x204: CALL 0x208   0x206: RET
\*   0x208: w            0x20A: RET   0x20C: RET
\* (the second return after w is where a skip by w lands).
CallWords == {EncXKK(top, 0, kk) : top \in 0..15, kk \in 0..255}

CallProgramWith(w) ==
    ProgramBytes(<<EncNNN(2, WordAddr(2)), 238, EncNNN(2, WordAddr(4)), 238,
                   w, 238, 238>>)

CallRoms ==
    {CallProgram(d) : d \in 1..MaxDepth}
    \cup {CallProgramWith(w) : w \in CallWords}

InitializeStack == ~Initialized /\ \E rom \in CallRoms : DoInitialize(rom)

StepStack == DoStep(StackSteps)

NextStack == InitializeStack \/ StepStack

SpecStack == Init /\ [][NextStack]_vars

\* Operation k was a Step that fetched a 2nnn (a 00EE).
FetchedCall(k) ==
    k \in 1..Len(trace) /\ trace[k].op = "Step" /\ IsTop(trace[k].instr, 2)

FetchedReturn(k) ==
    k \in 1..Len(trace) /\ trace[k].op = "Step" /\ trace[k].instr = 238

\* ... and the instruction returned.
Called(k) == FetchedCall(k) /\ Running(After(k))

Returned(k) == FetchedReturn(k) /\ Running(After(k))

\* The number of calls still open after operation k, counted on the trace.
Level(k) ==
    Cardinality({m \in 1..k : Called(m)}) - Cardinality({m \in 1..k : Returned(m)})

\* The call that the return at operation j answers: the last call before j
\* that was made at the nesting level j returns to.
MatchingCall(j) ==
    CHOOSE i \in 1..j :
        /\ Called(i)
        /\ Level(i - 1) = Level(j)
        /\ \A m \in (i + 1)..j : ~(Called(m) /\ Level(m - 1) = Level(j))

\* C9: a 2nnn executed by Step pushes the address of the instruction after
\* the call and sets PC = nnn; every return of d calls followed by d returns
\* (d up to 16) sets PC to the address its call pushed, last in first out,
\* and SP to its value before that call, so the last return brings SP back
\* to its value before the first call.
C9_CallReturn ==
    /\ Called(Len(trace)) =>
          /\ cpu.STACK[Last.pre.SP] = Last.pre.PC + 2
          /\ cpu.SP = Last.pre.SP + 1
          /\ cpu.PC = OpNNN(Last.instr)
    /\ (Returned(Len(trace)) /\ Level(Len(trace)) >= 0) =>
          /\ cpu.PC = trace[MatchingCall(Len(trace))].pre.PC + 2
          /\ cpu.SP = trace[MatchingCall(Len(trace))].pre.SP

\* Sixteen nested calls were made and the sixteenth return came back to the
\* word after the first call, 0x202, with the stack empty again.
C9_Witness ==
    /\ Returned(Len(trace))
    /\ Level(Len(trace)) = 0
    /\ \E m \in 1..Len(trace) : Level(m) = 16
    /\ MatchingCall(Len(trace)) = 2
    /\ trace[2].pre.SP = 0
    /\ cpu.PC = 514
    /\ cpu.SP = 0

\* C10: a 2nnn executed with 16 return addresses on the stack and a 00EE
\* executed with SP = 0 each end in a panic, which ends the program: no
\* operation runs after it.
C10_StackFaults ==
    /\ (FetchedCall(Len(trace)) /\ Last.pre.SP = 16) => cpu.halt = IndexPanic
    /\ (FetchedReturn(Len(trace)) /\ Last.pre.SP = 0) => cpu.halt = IndexPanic
    /\ \A k \in 1..Len(trace) : Running(trace[k].pre)

\* The seventeenth nested call panicked.
C10_Witness ==
    /\ FetchedCall(Len(trace))
    /\ Last.pre.SP = 16
    /\ Level(Len(trace) - 1) = 16
    /\ cpu.halt = IndexPanic

\* ------------------------------------------ keyboard: Ex9E, ExA1, Fx0A

KeySteps == 4

\* Values of V[x]: the sixteen keys, and values that name no key.
KeyValues == (0..15) \cup {16, 17, 255}

\* LD Vx, k; then Ex9E, ExA1 (top = 0xE) or Fx0A (top = 0xF) on Vx.
KeyProgram(x, k, top, low) ==
    ProgramBytes(<<EncXKK(6, x, k), EncXKK(top, x, low)>>)

KeyRoms ==
    {KeyProgram(x, k, 14, low) : x \in {0, 15}, k \in KeyValues, low \in {158, 161}}
    \cup {KeyProgram(x, 99, 15, 10) : x \in {0, 15}}

\* What the driver's PressedKeys() returns: the codes of the keys that are
\* down, each once, in the order of a Go map iteration (any order).
KeySnapshots ==
    {<<>>} \cup {<<k>> : k \in 0..15}
    \cup {<<3, 15>>, <<15, 0>>, <<7, 2, 9>>, [i \in 1..16 |-> 16 - i]}

InitializeKeys == ~Initialized /\ \E rom \in KeyRoms : DoInitialize(rom)

StepKeys == DoStep(KeySteps)

UpdateKeyboardKeys == \E keys \in KeySnapshots : DoUpdateKeyboard(keys, KeySteps)

NextKeys == InitializeKeys \/ StepKeys \/ UpdateKeyboardKeys

SpecKeys == Init /\ [][NextKeys]_vars

\* The keys of the last snapshot given to UpdateKeyboard before operation n
\* (none before the first snapshot: the latch of a new machine is empty).
Held(n) ==
    LET ups == {m \in 1..(n - 1) : trace[m].op = "UpdateKeyboard"}
    IN  IF ups = {} THEN {}
        ELSE LET m == CHOOSE u \in ups : \A v \in ups : v <= u
             IN  {trace[m].arg[i] : i \in 1..Len(trace[m].arg)}

\* The last operation was a Step that decoded Ex<low>.
KeyStep(low) ==
    /\ Initialized
    /\ Last.op = "Step"
    /\ IsTopKK(Last.instr, 14, low)

\* The last operation changed PC alone, to the address d bytes after the
\* instruction it fetched.
OnlyPC(d) == cpu = [prev EXCEPT !.PC = prev.PC + d]

\* C11: with no key held Ex9E does not skip (PC + 2) and ExA1 skips
\* (PC + 4); for every k in 0..15, with V[x] = k and exactly key k held,
\* Ex9E skips and ExA1 does not; neither changes a field other than PC.
C11_KeySkips ==
    LET vx == Last.pre.V[OpX(Last.instr)]
        held == Held(Len(trace))
    IN  /\ KeyStep(158) =>
              /\ OnlyPC(2) \/ OnlyPC(4)
              /\ held = {} => OnlyPC(2)
              /\ (vx \in 0..15 /\ held = {vx}) => OnlyPC(4)
        /\ KeyStep(161) =>
              /\ OnlyPC(2) \/ OnlyPC(4)
              /\ held = {} => OnlyPC(4)
              /\ (vx \in 0..15 /\ held = {vx}) => OnlyPC(2)

\* With key 0xF alone held and V[x] = 0xF, Ex9E skipped.
C11_Witness ==
    /\ KeyStep(158)
    /\ Last.pre.V[OpX(Last.instr)] = 15
    /\ Held(Len(trace)) = {15}
    /\ Last.pre.KEYBOARD # 0
    /\ OnlyPC(4)

\* ------------------------------------- timers: UpdateTimers, Fx15, Fx18

TimerSteps == 8

TimerValues == {0, 1, 2, 5, 255}

\* LD V0, dt; LD V1, st; LD DT, V0; LD ST, V1.
TimerProgram(dt, st) ==
    ProgramBytes(<<EncXKK(6, 0, dt), EncXKK(6, 1, st),
                   EncXKK(15, 0, 21), EncXKK(15, 1, 24)>>)

TimerRoms == {TimerProgram(dt, st) : dt \in TimerValues, st \in TimerValues}

InitializeTimers == ~Initialized /\ \E rom \in TimerRoms : DoInitialize(rom)

StepTimers == DoStep(TimerSteps)

UpdateTimersTimers == DoUpdateTimers(TimerSteps)

NextTimers == InitializeTimers \/ StepTimers \/ UpdateTimersTimers

SpecTimers == Init /\ [][NextTimers]_vars

\* The last j operations were ticks.
Ticked(j) ==
    /\ j \in 1..Len(trace)
    /\ \A m \in (Len(trace) - j + 1)..Len(trace) : trace[m].op = "UpdateTimers"

Max(a, b) == IF a >= b THEN a ELSE b

\* C12: a tick sets DT to DT-1 if DT > 0 and leaves 0 at 0, the same for
\* ST independently, and changes nothing else; so after j ticks in a row
\* each timer is max(initial - j, 0).
C12_TimerTick ==
    /\ Ticked(1) =>
          cpu = [prev EXCEPT !.DT = Max(prev.DT - 1, 0),
                             !.ST = Max(prev.ST - 1, 0)]
    /\ \A j \in 1..Len(trace) :
          Ticked(j) =>
              /\ cpu.DT = Max(trace[Len(trace) - j + 1].pre.DT - j, 0)
              /\ cpu.ST = Max(trace[Len(trace) - j + 1].pre.ST - j, 0)

\* Three ticks in a row took DT from 2 to 0 and ST from 5 to 2.
C12_Witness ==
    /\ Ticked(3)
    /\ trace[Len(trace) - 2].pre.DT = 2
    /\ trace[Len(trace) - 2].pre.ST = 5
    /\ prev.DT = 0
    /\ cpu.DT = 0
    /\ cpu.ST = 2

\* ------------------------------------------- addresses of 4096 and more

\* C13 (as claimed): the memory accesses of Fetch, Dxyn, Fx33, Fx55 and Fx65
\* address memory modulo 4096 and the instruction completes: no Step faults
\* because an address is 4096 or more, and Fx33 stores its three digits at
\* I, I+1 and I+2 modulo 4096.
C13_AddressWrap ==
    (Initialized /\ Last.op = "Step" /\ Last.pre.PC >= CHIP8_PROGRAM_START) =>
        /\ Last.instr >= 0
        /\ (\/ IsTop(Last.instr, 13)
            \/ IsTopKK(Last.instr, 15, 51)
            \/ IsTopKK(Last.instr, 15, 85)
            \/ IsTopKK(Last.instr, 15, 101)) => Running(cpu)
        /\ IsTopKK(Last.instr, 15, 51) =>
              LET v == Last.pre.V[OpX(Last.instr)]
                  a == Last.pre.I
              IN  /\ cpu.RAM[a % RAM_SIZE] = v \div 100
                  /\ cpu.RAM[(a + 1) % RAM_SIZE] = (v \div 10) % 10
                  /\ cpu.RAM[(a + 2) % RAM_SIZE] = v % 10

\* ------------------------------------------------- unknown encodings

DecodeSteps == 6

\* Every word t x kk with x = 0 or 0xF: all sixteen top nibbles with all 256
\* low bytes, the opcodes among them.
DecodeWords ==
    {EncXKK(top, x, kk) : top \in 0..15, x \in {0, 15}, kk \in 0..255}

\* Load V0..VF with sixteen different values from the data bytes; LD I,
\* 0x300; then the word, and one more Step from where the word leaves PC.
DecodeProgram(w) ==
    ProgramBytes(<<EncNNN(10, WordAddr(4)),
                   EncXKK(15, 15, 101),
                   EncNNN(10, 768),
                   w>>) \o RegPattern(3)

DecodeRoms == {DecodeProgram(w) : w \in DecodeWords}

InitializeDecode == ~Initialized /\ \E rom \in DecodeRoms : DoInitialize(rom)

StepDecode == DoStep(DecodeSteps)

NextDecode == InitializeDecode \/ StepDecode

SpecDecode == Init /\ [][NextDecode]_vars

\* The instruction set: the words that are opcodes of CHIP-8.
KnownOpcode(w) ==
    \/ w \in {224, 238}
    \/ OpTop(w) \in {1, 2, 3, 4, 6, 7, 10, 11, 12, 13}
    \/ OpTop(w) \in {5, 9} /\ OpN(w) = 0
    \/ OpTop(w) = 8 /\ OpN(w) \in (0..7) \cup {14}
    \/ OpTop(w) = 14 /\ OpKK(w) \in {158, 161}
    \/ OpTop(w) = 15 /\ OpKK(w) \in {7, 10, 21, 24, 30, 41, 51, 85, 101}

\* C14: a Step over a word that is no opcode changes PC alone, by 2:
\* DecodeExecute leaves every field of the machine as it was.
C14_UnknownNoOp ==
    (Initialized /\ Last.op = "Step" /\ Last.instr >= 0
        /\ ~KnownOpcode(Last.instr)) => OnlyPC(2)

\* 0x8018 (8xy8, x = 0, y = 1) was stepped over with V0 # V1.
C14_Witness ==
    /\ Initialized
    /\ Last.op = "Step"
    /\ Last.instr = 32792
    /\ ~KnownOpcode(Last.instr)
    /\ Last.pre.V[0] # Last.pre.V[1]
    /\ Last.pre.I = 768
    /\ OnlyPC(2)

\* ------------------------------------------------ wait for a key: Fx0A

\* The last operation was a Step that fetched Fx0A.
WaitStep ==
    /\ Initialized
    /\ Last.op = "Step"
    /\ IsTopKK(Last.instr, 15, 10)

\* C15 (as claimed): a Step that reaches Fx0A while no key is held returns
\* to the driver with PC still at the Fx0A, so that the instruction is
\* entered again by the next Step.
C15_WaitKeyYields ==
    (WaitStep /\ Held(Len(trace)) = {}) =>
        /\ Running(cpu)
        /\ cpu.PC = Last.pre.PC

\* C16 (as claimed): Fx0A executed with a non-empty set S of held keys
\* completes and leaves V[x] = min(S), for every S including {0xF}.
C16_WaitKeyLowest ==
    (WaitStep /\ Held(Len(trace)) # {}) =>
        /\ Running(cpu)
        /\ \A k \in Held(Len(trace)) : cpu.V[OpX(Last.instr)] <= k
        /\ cpu.V[OpX(Last.instr)] \in Held(Len(trace))

\* ------------------------------------------------ Initialize, LoadRom

LoadSteps == 6

\* The room for a program: the bytes from 0x200 to the end of memory.
ProgramRoom == RAM_SIZE - CHIP8_PROGRAM_START

\* Program lengths: none, a few bytes, and around the room there is.
LoadLengths ==
    {0, 1, 2, 3, 80, ProgramRoom - 1, ProgramRoom, ProgramRoom + 1,
     ProgramRoom + 2, RAM_SIZE, RAM_SIZE + 1}

\* A program file of n bytes, none of them zero: the words are 6xkk
\* instructions (LD Vx, kk) with varying x and kk.
LoadProgram(n, s) ==
    [i \in 1..n |->
        IF i % 2 = 1 THEN 96 + ((i \div 2) % 16) ELSE 1 + ((i * 37 + s) % 255)]

LoadRoms == {LoadProgram(n, s) : n \in LoadLengths, s \in {3, 77, 200}}

InitializeLoad == ~Initialized /\ \E rom \in LoadRoms : DoInitialize(rom)

StepLoad == DoStep(LoadSteps)

NextLoad == InitializeLoad \/ StepLoad

SpecLoad == Init /\ [][NextLoad]_vars

\* Initialize has just run, on the program trace[1].arg.
JustInitialized == Len(trace) = 1 /\ Last.op = "Initialize"

\* C17: after Initialize with the 80 font bytes and a program of at most
\* 3584 bytes, RAM[0..79] is the font table, RAM[0x200..0x200+len-1] is the
\* program in order, and PC = 0x200.
C17_InitializeLayout ==
    (JustInitialized /\ Len(Last.arg) <= ProgramRoom) =>
        /\ Running(cpu)
        /\ \A i \in 1..Len(Fonts) : cpu.RAM[i - 1] = Fonts[i]
        /\ \A i \in 1..Len(Last.arg) :
              cpu.RAM[CHIP8_PROGRAM_START + i - 1] = Last.arg[i]
        /\ cpu.PC = CHIP8_PROGRAM_START

\* A program of 3584 bytes was loaded: its last byte is the last byte of
\* memory.
C17_Witness ==
    /\ JustInitialized
    /\ Len(Last.arg) = 3584
    /\ prev.RAM[4095] = 0
    /\ cpu.RAM[4095] = Last.arg[3584]
    /\ cpu.RAM[4095] # 0
    /\ cpu.RAM[79] = 128
    /\ cpu.PC = 512

\* C18 (as claimed): a program longer than 3584 bytes makes Initialize fail,
\* before any instruction executes; it is never loaded in part.
C18_OversizedRejected ==
    (Initialized /\ trace[1].op = "Initialize"
        /\ Len(trace[1].arg) > ProgramRoom) =>
        /\ ~Running(cpu)
        /\ Len(trace) = 1
        /\ cpu.RAM = prev.RAM

\* --------------------------- UpdateKeyboard beside the execution loop

\* The single-file variant starts the execution loop as a goroutine
\* (go cpu.Run()) and calls cpu.UpdateKeyboard(PressedKeys()) from the main
\* loop, with no lock: the statements of UpdateKeyboard interleave with the
\* Steps.  A Step reads the latch once, so it is one action.

RaceSteps == 6

\* The first statement of UpdateKeyboard: cpu.KEYBOARD = 0.
DoUpdateKeyboardClear(pressedKeys, bound) ==
    /\ Initialized
    /\ Len(trace) < bound
    /\ Running(cpu)
    /\ task.kpos = -1
    /\ cpu' = [cpu EXCEPT !.KEYBOARD = 0]
    /\ task' = [task EXCEPT !.keys = pressedKeys,
                            !.kpos = IF pressedKeys = <<>> THEN -1 ELSE 0]
    /\ prev' = cpu
    /\ trace' = Append(trace, EntryArg("UpdateKeyboard", pressedKeys, cpu))

\* One pass of its loop: cpu.KEYBOARD |= uint16(1) << (16 - 1 - v), for the
\* next v of pressedKeys; after the last pass UpdateKeyboard returns.
DoUpdateKeyboardLoop(bound) ==
    /\ Initialized
    /\ Len(trace) < bound
    /\ Running(cpu)
    /\ task.kpos >= 0
    /\ cpu' = [cpu EXCEPT !.KEYBOARD =
                    Or(@, Uint16(2 ^ (16 - 1 - task.keys[task.kpos + 1])))]
    /\ task' = [task EXCEPT !.kpos = IF task.kpos + 1 = Len(task.keys)
                                     THEN -1 ELSE task.kpos + 1]
    /\ prev' = cpu
    /\ trace' = Append(trace, Entry("UpdateKeyboardLoop", -1, cpu))

\* Keys 3 and 0xF tested by Ex9E and by ExA1.
RaceKeyRoms ==
    {KeyProgram(0, k, 14, low) : k \in {3, 15}, low \in {158, 161}}

RaceSnapshots == {<<>>, <<3>>, <<3, 15>>, <<15, 3>>}

InitializeKeyRace == ~Initialized /\ \E rom \in RaceKeyRoms : DoInitialize(rom)

StepKeyRace == DoStep(RaceSteps)

ClearKeyRace ==
    \E keys \in RaceSnapshots : DoUpdateKeyboardClear(keys, RaceSteps)

LoopKeyRace == DoUpdateKeyboardLoop(RaceSteps)

NextKeyRace == InitializeKeyRace \/ StepKeyRace \/ ClearKeyRace \/ LoopKeyRace

SpecKeyRace == Init /\ [][NextKeyRace]_vars

\* The snapshot before the last one given to UpdateKeyboard before
\* operation n (the empty latch of a new machine, if there is none).
HeldBefore(n) ==
    LET ups == {m \in 1..(n - 1) : trace[m].op = "UpdateKeyboard"}
    IN  IF ups = {} THEN {}
        ELSE Held(CHOOSE u \in ups : \A v \in ups : v <= u)

\* The last operation was an Ex9E or ExA1 that read key V[x] as held.
ReadHeld == (KeyStep(158) /\ OnlyPC(4)) \/ (KeyStep(161) /\ OnlyPC(2))

\* C19 (as claimed): an Ex9E or ExA1 that runs beside UpdateKeyboard reads
\* key V[x] as the previous snapshot has it or as the new snapshot has it
\* (as the new one has it, once UpdateKeyboard has returned); a key held in
\* both snapshots never reads as not held.
C19_AtomicLatch ==
    (KeyStep(158) \/ KeyStep(161)) =>
        LET vx == Last.pre.V[OpX(Last.instr)]
            new == Held(Len(trace))
            old == HeldBefore(Len(trace))
        IN  /\ (vx \in new /\ vx \in old) => ReadHeld
            /\ (vx \notin new /\ vx \notin old) => ~ReadHeld
            /\ task.kpos = -1 => (ReadHeld <=> vx \in new)

\* ----------------------------------- Timers beside the execution loop

\* The single-file variant runs the ticker as a goroutine (go cpu.Timers())
\* beside the execution loop, with no lock.  The body of its loop is taken
\* statement by statement, and `cpu.ST -= 1` as a load followed by a store;
\* a Step reads or writes a timer once, so it is one action.

TimerRaceSteps == 9

\* The next statement of the Timers loop, at position t.tpos, on machine c:
\* the machine and the task after it.
TimersStatement(c, t) ==
    IF t.tpos = "idle"                               \* if cpu.ST > 0
    THEN [m |-> c,
          t |-> [t EXCEPT !.tpos = IF c.ST > 0 THEN "loadST" ELSE "checkDT"]]
    ELSE IF t.tpos = "loadST"                        \* cpu.ST -= 1 (load)
    THEN [m |-> c, t |-> [t EXCEPT !.tpos = "storeST", !.tmp = c.ST]]
    ELSE IF t.tpos = "storeST"                       \* cpu.ST -= 1 (store)
    THEN [m |-> [c EXCEPT !.ST = Byte(t.tmp + 255)],
          t |-> [t EXCEPT !.tpos = "checkDT"]]
    ELSE IF t.tpos = "checkDT"                       \* if cpu.DT > 0
    THEN [m |-> c,
          t |-> [t EXCEPT !.tpos = IF c.DT > 0 THEN "loadDT" ELSE "idle"]]
    ELSE IF t.tpos = "loadDT"                        \* cpu.DT -= 1 (load)
    THEN [m |-> c, t |-> [t EXCEPT !.tpos = "storeDT", !.tmp = c.DT]]
    ELSE [m |-> [c EXCEPT !.DT = Byte(t.tmp + 255)],  \* cpu.DT -= 1 (store)
          t |-> [t EXCEPT !.tpos = "idle"]]          \* time.Sleep

\* One statement of the ticker; the first statement of a pass of the loop
\* is recorded as "TimersBegin", the others as "Timers".
DoTimersStatement(bound) ==
    /\ Initialized
    /\ Len(trace) < bound
    /\ Running(cpu)
    /\ cpu' = TimersStatement(cpu, task).m
    /\ task' = TimersStatement(cpu, task).t
    /\ prev' = cpu
    /\ trace' = Append(trace,
                  Entry(IF task.tpos = "idle" THEN "TimersBegin" ELSE "Timers",
                        -1, cpu))

\* LD V0, a; store V0 in the timer; LD V0, v; store V0 in the timer
\* (low = 0x15 for DT, 0x18 for ST).
TimerRaceProgram(a, v, low) ==
    ProgramBytes(<<EncXKK(6, 0, a), EncXKK(15, 0, low),
                   EncXKK(6, 0, v), EncXKK(15, 0, low)>>)

TimerRaceRoms ==
    {TimerRaceProgram(a, v, low) : a \in {0, 1, 5}, v \in {0, 1, 9}, low \in {21, 24}}

InitializeTimerRace ==
    ~Initialized /\ \E rom \in TimerRaceRoms : DoInitialize(rom)

StepTimerRace == DoStep(TimerRaceSteps)

TimersTimerRace == DoTimersStatement(TimerRaceSteps)

NextTimerRace == InitializeTimerRace \/ StepTimerRace \/ TimersTimerRace

SpecTimerRace == Init /\ [][NextTimerRace]_vars

\* The operations from the first statement of the last tick onwards.
TickWindow ==
    LET begins == {m \in 1..Len(trace) : trace[m].op = "TimersBegin"}
    IN  IF begins = {} THEN {}
        ELSE (CHOOSE b \in begins : \A m \in begins : m <= b)..Len(trace)

\* Operation j was a Step that decoded Fx<low> (a store to a timer).
TimerStore(j, low) == trace[j].op = "Step" /\ IsTopKK(trace[j].instr, 15, low)

\* The last operation completed a tick during which exactly one store of
\* Fx<low> ran, and no other Step.
TickWithStore(low) ==
    /\ Initialized
    /\ Last.op \in {"Timers", "TimersBegin"}
    /\ task.tpos = "idle"
    /\ Cardinality({j \in TickWindow : trace[j].op = "Step"}) = 1
    /\ \E j \in TickWindow : TimerStore(j, low)

\* The value that store wrote.
StoredValue(low) ==
    LET j == CHOOSE k \in TickWindow : TimerStore(k, low)
    IN  trace[j].pre.V[OpX(trace[j].instr)]

\* C20 (as claimed): a tick excludes the timer opcodes, so one tick with one
\* Fx15 (Fx18) storing v leaves the timer at v or max(v-1, 0), and no
\* statement of a tick takes a timer from 0 to 255.
C20_TickExclusion ==
    /\ TickWithStore(21) => cpu.DT \in {StoredValue(21), Max(StoredValue(21) - 1, 0)}
    /\ TickWithStore(24) => cpu.ST \in {StoredValue(24), Max(StoredValue(24) - 1, 0)}
    /\ (Initialized /\ Last.op \in {"Timers", "TimersBegin"}) =>
          /\ ~(prev.DT = 0 /\ cpu.DT = 255)
          /\ ~(prev.ST = 0 /\ cpu.ST = 255)

\* ------------------------------------------------ decoding, one rule

\* The rules of DecodeExecute that match word w.
Matching(w) == {r \in 1..Len(Rules(w)) : Rules(w)[r]}

\* C21: at most one rule of DecodeExecute matches any instruction word, so
\* the order in which the patterns are tried does not matter; and a word
\* that is an opcode matches exactly one.
C21_OneRule ==
    (Initialized /\ Last.op = "Step" /\ Last.instr >= 0) =>
        /\ Cardinality(Matching(Last.instr)) <= 1
        /\ KnownOpcode(Last.instr) <=> Matching(Last.instr) # {}

\* 0xF055 was fetched: of the nine Fx rules only Fx55 matches it.
C21_Witness ==
    /\ Initialized
    /\ Last.op = "Step"
    /\ Last.instr = 61525
    /\ Matching(Last.instr) = {33}

\* ------------------------------------------------ the program counter

\* C22: in every state reached from an initialised machine by Steps, whatever
\* the program, PC is even and at least the program load base.
C22_PCInvariant ==
    Initialized => (cpu.PC % 2 = 0 /\ cpu.PC >= CHIP8_PROGRAM_START)

\* ------------------------------------------ key numbers of 16 and more

\* C23: for every value of V[x], those above 15 included, Ex9E and ExA1
\* test the latch bit of key V[x] & 0xF: Ex9E skips exactly when that key is
\* held, ExA1 exactly when it is not (V[x] = 0x11 tests key 1).
C23_KeyMasking ==
    LET vx == Last.pre.V[OpX(Last.instr)]
        held == Held(Len(trace))
    IN  /\ KeyStep(158) =>
              IF (vx % 16) \in held THEN OnlyPC(4) ELSE OnlyPC(2)
        /\ KeyStep(161) =>
              IF (vx % 16) \in held THEN OnlyPC(2) ELSE OnlyPC(4)

\* ------------------------------------------- the state a stack fault leaves

\* The last operation was a Step whose 2nnn or 00EE panicked on the stack.
StackFault ==
    /\ FetchedCall(Len(trace)) \/ FetchedReturn(Len(trace))
    /\ cpu.halt = IndexPanic

\* C24: when a 2nnn at SP = 16 or a 00EE at SP = 0 faults, SP, STACK and PC
\* are what they were when the instruction had been fetched and was about to
\* be decoded: SP still 16 (still 0), PC the address after the instruction.
C24_FaultKeepsState ==
    StackFault =>
        /\ cpu.SP = Last.pre.SP
        /\ cpu.STACK = Last.pre.STACK
        /\ cpu.PC = Last.pre.PC + 2

\* The part of C24 about 2nnn at SP = 16.
C24_OverflowKeepsState ==
    (StackFault /\ FetchedCall(Len(trace))) =>
        /\ cpu.SP = 16
        /\ cpu.STACK = Last.pre.STACK
        /\ cpu.PC = Last.pre.PC + 2

\* ------------------------------------------------ the stack pointer

\* The call that filled stack slot i and is still open: the last call made
\* at nesting level i.
OpenCall(i) ==
    CHOOSE m \in 1..Len(trace) :
        /\ Called(m)
        /\ Level(m - 1) = i
        /\ \A n \in (m + 1)..Len(trace) : ~(Called(n) /\ Level(n - 1) = i)

\* C25: while no operation has faulted, SP is in 0..16 and is the number of
\* calls executed less the number of returns executed, and STACK[0..SP-1]
\* holds the return addresses of the calls still open, in the order they
\* were made; a Step over any word but 2nnn and 00EE leaves SP and STACK as
\* they were.
C25_StackInvariant ==
    /\ (Initialized /\ Running(cpu)) =>
          /\ cpu.SP \in 0..STACK_SIZE
          /\ cpu.SP = Level(Len(trace))
          /\ \A i \in 0..(cpu.SP - 1) :
                /\ cpu.STACK[i] = trace[OpenCall(i)].pre.PC + 2
                /\ i > 0 => OpenCall(i - 1) < OpenCall(i)
    /\ (Initialized /\ Last.op = "Step"
          /\ ~FetchedCall(Len(trace)) /\ ~FetchedReturn(Len(trace))) =>
          /\ cpu.SP = prev.SP
          /\ cpu.STACK = prev.STACK

\* Sixteen calls are open and the stack is full; its last slot holds the
\* address after the sixteenth call.
C25_Witness ==
    /\ Initialized
    /\ Running(cpu)
    /\ cpu.SP = 16
    /\ Level(Len(trace)) = 16
    /\ cpu.STACK[0] = 514
    /\ cpu.STACK[15] = 574

\* Two calls deep, Fx55 stored a register in memory and left the stack as
\* it was.
C25_WitnessFrame ==
    /\ Initialized
    /\ Last.op = "Step"
    /\ Last.instr = 61525
    /\ Running(cpu)
    /\ cpu.SP = 2
    /\ cpu.STACK[0] = 514
    /\ cpu.STACK[1] = 518

\* ------------------------------------------------ shifts: 8xy6, 8xyE

\* C26: for v = V[x] read before the instruction, 8xy6 leaves VF = v mod 2
\* and 8xyE leaves VF = v div 128, also when x = 0xF; when x # 0xF,
\* V[x] = v div 2 after 8xy6 and (2 * v) mod 256 after 8xyE; V[y] is neither
\* read nor changed (no register but V[x] and VF changes, and these depend
\* on v alone).
C26_ShiftFlags ==
    LET x == OpX(Last.instr)
        v == Last.pre.V[x]
        others == \A r \in 0..15 : r \notin {x, 15} => cpu.V[r] = Last.pre.V[r]
    IN  /\ Executed8(6) =>
              /\ cpu.V[15] = v % 2
              /\ x # 15 => cpu.V[x] = v \div 2
              /\ others
        /\ Executed8(14) =>
              /\ cpu.V[15] = v \div 128
              /\ x # 15 => cpu.V[x] = (2 * v) % 256
              /\ others

\* 8xy6 on x = 0xF with VF = 255 left VF = 1, the bit shifted out, and
\* V[y], which held another value, as it was.
C26_Witness ==
    /\ Executed8(6)
    /\ OpX(Last.instr) = 15
    /\ OpY(Last.instr) = 1
    /\ Last.pre.V[15] = 255
    /\ Last.pre.V[1] = 128
    /\ cpu.V[15] = 1
    /\ cpu.V[1] = 128

\* ------------------------------------- skips: 3xkk, 4xkk, 5xy0, 9xy0

\* The last Step skipped the next instruction if cond and did not if not,
\* and changed nothing but PC.
SkippedIff(cond) == IF cond THEN cpu = [prev EXCEPT !.PC = prev.PC + 4]
                    ELSE cpu = [prev EXCEPT !.PC = prev.PC + 2]

\* C27: 3xkk adds 2 to PC (beyond the 2 of the fetch) iff V[x] = kk, 4xkk
\* iff V[x] # kk, 5xy0 iff V[x] = V[y], 9xy0 iff V[x] # V[y], and otherwise
\* leaves PC alone; registers, SP, stack, I, timers, memory and display are
\* unchanged in every case.
C27_Skips ==
    (Initialized /\ Last.op = "Step" /\ Last.instr >= 0) =>
        LET w == Last.instr
            vx == prev.V[OpX(w)]
            vy == prev.V[OpY(w)]
        IN  /\ IsTop(w, 3) => SkippedIff(vx = OpKK(w))
            /\ IsTop(w, 4) => SkippedIff(vx # OpKK(w))
            /\ IsTopN(w, 5, 0) => SkippedIff(vx = vy)
            /\ IsTopN(w, 9, 0) => SkippedIff(vx # vy)

\* 5xy0 on two different registers that both hold 128 skipped.
C27_Witness ==
    /\ Initialized
    /\ Last.op = "Step"
    /\ IsTopN(Last.instr, 5, 0)
    /\ OpX(Last.instr) = 0
    /\ OpY(Last.instr) = 15
    /\ prev.V[0] = 128
    /\ prev.V[15] = 128
    /\ cpu.PC = prev.PC + 4

\* 9xy0 on the same two registers did not skip.
C27_WitnessNoSkip ==
    /\ Initialized
    /\ Last.op = "Step"
    /\ IsTopN(Last.instr, 9, 0)
    /\ OpX(Last.instr) = 0
    /\ OpY(Last.instr) = 15
    /\ prev.V[0] = 128
    /\ prev.V[15] = 128
    /\ cpu.PC = prev.PC + 2

\* --------------------------------- what an instruction leaves alone

FrameSteps == 9

\* Draw five rows of the data bytes at (0, 0); load V0..VF with sixteen
\* different values from the data bytes; LD DT, V2; LD ST, V3; LD I, 0x300;
\* then the word w, which so finds lit pixels, both timers running and no
\* register at 0.
FrameProgram(w) ==
    ProgramBytes(<<EncNNN(10, WordAddr(7)),
                   EncXYN(13, 0, 0, 5),
                   EncXKK(15, 15, 101),
                   EncXKK(15, 2, 21),
                   EncXKK(15, 3, 24),
                   EncNNN(10, 768),
                   w>>) \o RegPattern(3)

InitializeFrame ==
    ~Initialized /\ \E w \in CallWords : DoInitialize(FrameProgram(w))

StepFrame == DoStep(FrameSteps)

\* The driver's tick and keyboard frame, once the program has run.
UpdateTimersFrame ==
    Len(trace) >= FrameSteps - 1 /\ DoUpdateTimers(FrameSteps)

UpdateKeyboardFrame ==
    /\ Len(trace) >= FrameSteps - 1
    /\ \E keys \in {<<0>>, <<7, 2, 9>>} : DoUpdateKeyboard(keys, FrameSteps)

NextFrame ==
    InitializeFrame \/ StepFrame \/ UpdateTimersFrame \/ UpdateKeyboardFrame

SpecFrame == Init /\ [][NextFrame]_vars

\* The last operation was a Step that fetched a word.
Stepped == Initialized /\ Last.op = "Step" /\ Last.instr >= 0

\* C28: DecodeExecute of any word other than Fx15 and Fx18 leaves DT and ST
\* as they were (Fx07 copies DT to V[x] and leaves it); Fx15 changes DT
\* alone, to V[x], and Fx18 changes ST alone, to V[x].
C28_TimersFrame ==
    Stepped =>
        LET w == Last.instr
            vx == prev.V[OpX(w)]
        IN  /\ (~IsTopKK(w, 15, 21) /\ ~IsTopKK(w, 15, 24)) =>
                  /\ cpu.DT = prev.DT
                  /\ cpu.ST = prev.ST
            /\ IsTopKK(w, 15, 7) => cpu.V[OpX(w)] = prev.DT
            /\ IsTopKK(w, 15, 21) =>
                  cpu = [prev EXCEPT !.PC = prev.PC + 2, !.DT = vx]
            /\ IsTopKK(w, 15, 24) =>
                  cpu = [prev EXCEPT !.PC = prev.PC + 2, !.ST = vx]

\* F007 copied a running delay timer to V0 and left both timers running.
C28_Witness ==
    /\ Stepped
    /\ Last.instr = 61447
    /\ prev.DT = 54
    /\ prev.ST = 71
    /\ prev.V[0] = 20
    /\ cpu.V[0] = 54
    /\ cpu.DT = 54
    /\ cpu.ST = 71

\* F015 then set the delay timer to V0 and left the sound timer running.
C28_WitnessSet ==
    /\ Stepped
    /\ Last.instr = 61461
    /\ Len(trace) = 8
    /\ prev.DT = 54
    /\ cpu.DT = 20
    /\ cpu.ST = 71

\* Some pixel of machine c is lit.
Lit(c) == \E p \in DOMAIN c.FRAMEBUFFER : c.FRAMEBUFFER[p]

\* C29: a Step over any word other than 00E0 and Dxyn, an UpdateTimers and
\* an UpdateKeyboard leave every pixel as it was; 00E0 sets every pixel to
\* false and changes nothing else (VF is kept, PC is that of the fetch).
C29_DisplayFrame ==
    /\ (Stepped /\ Last.instr # 224 /\ ~IsTop(Last.instr, 13)) =>
          cpu.FRAMEBUFFER = prev.FRAMEBUFFER
    /\ (Initialized /\ Last.op \in {"UpdateTimers", "UpdateKeyboard"}) =>
          cpu.FRAMEBUFFER = prev.FRAMEBUFFER
    /\ (Stepped /\ Last.instr = 224) =>
          /\ ~Lit(cpu)
          /\ cpu = [prev EXCEPT !.PC = prev.PC + 2,
                                !.FRAMEBUFFER = NewChip8.FRAMEBUFFER]

\* 00E0 cleared a display that had lit pixels, with VF at 19 before and
\* after.
C29_Witness ==
    /\ Stepped
    /\ Last.instr = 224
    /\ Lit(prev)
    /\ ~Lit(cpu)
    /\ prev.V[15] = 19
    /\ cpu.V[15] = 19

\* A tick and a keyboard frame each found lit pixels and left them lit.
C29_WitnessDriver ==
    /\ Initialized
    /\ Last.op \in {"UpdateTimers", "UpdateKeyboard"}
    /\ Lit(prev)
    /\ cpu.FRAMEBUFFER = prev.FRAMEBUFFER
    /\ cpu # prev

\* ------------------------------------------------ font address: Fx29

\* C30: Fx29 sets I to 5 * V[x], the product taken in 16 bits (V[x] = 52
\* gives 260), for every value of V[x], and changes nothing else.
C30_FontAddress ==
    (Stepped /\ IsTopKK(Last.instr, 15, 41)) =>
        cpu = [prev EXCEPT !.PC = prev.PC + 2,
                           !.I = 5 * prev.V[OpX(Last.instr)]]

\* Fx29 on V[x] = 52 set I = 260.
C30_Witness ==
    /\ Stepped
    /\ IsTopKK(Last.instr, 15, 41)
    /\ prev.V[OpX(Last.instr)] = 52
    /\ cpu.I = 260

\* Fx29 on V[x] = 255 set I = 1275.
C30_WitnessTop ==
    /\ Stepped
    /\ IsTopKK(Last.instr, 15, 41)
    /\ prev.V[OpX(Last.instr)] = 255
    /\ cpu.I = 1275

\* ------------------------------- Fx0A beside the input sampler (liveness)

\* The single-file variant keeps the latch as KEYBOARD [16]bool.  Its main
\* starts the execution loop as a goroutine (go cpu.Run()) and then calls
\* cpu.UpdateKeyboard(PressedKeys()) once per frame, with no lock.  The
\* statements of UpdateKeyboard (one store per pass of its two loops) and of
\* Fx0A (one evaluation of the loop condition; the assignment after the
\* loop) interleave.  This specification records no history: `trace` keeps
\* the entry of Initialize and `prev` the machine before it, so that the
\* loops have finitely many states and a pass of the loop of Fx0A that
\* finds no key changes nothing.

\* The zero value of KEYBOARD [16]bool.
NoKeys == [i \in 0..15 |-> FALSE]

\* for _, k := range cpu.KEYBOARD { if k { return true } }; return false
IsAnyKeyPressedBools(c) == \E i \in 0..15 : c.KEYBOARD[i]

\* for i, k := range cpu.KEYBOARD { if k { keys = append(keys, uint8(i)) } }
PressedKeysBools(c) ==
    LET F[i \in 0..16] ==
            IF i = 16 THEN <<>>
            ELSE (IF c.KEYBOARD[i] THEN <<i>> ELSE <<>>) \o F[i + 1]
    IN  F[0]

\* The next statement of the execution loop on machine c, at position
\* t.wpos: "run" is cpu.Step() up to the loop of Fx0A (to its end, for any
\* other word), "wait" one evaluation of !cpu.IsAnyKeyPressed(), "read" the
\* statement cpu.V[x] = cpu.PressedKeys()[0]; t.tmp holds x meanwhile.
RunStatement(c, t) ==
    IF t.wpos = "run"
    THEN LET f == Fetch(c)
         IN  IF Running(f.m) /\ IsTopKK(f.ret, 15, 10)
             THEN [m |-> f.m, t |-> [t EXCEPT !.wpos = "wait", !.tmp = OpX(f.ret)]]
             ELSE [m |-> Step(c, 0), t |-> t]
    ELSE IF t.wpos = "wait"
    THEN [m |-> c,
          t |-> [t EXCEPT !.wpos = IF IsAnyKeyPressedBools(c) THEN "read"
                                   ELSE "wait"]]
    ELSE LET keys == PressedKeysBools(c)
         IN  [m |-> IF Len(keys) = 0 THEN Panic(c, IndexPanic)
                    ELSE [c EXCEPT !.V[t.tmp] = keys[1]],
              t |-> [t EXCEPT !.wpos = "run"]]

\* The next statement of cpu.UpdateKeyboard(pressedKeys) on machine c: a
\* pass of the first loop (cpu.KEYBOARD[i] = false, i = t.cpos), or of the
\* second (cpu.KEYBOARD[v] = true, v the next of t.keys).
UpdateKeyboardStatement(c, t) ==
    IF t.cpos >= 0
    THEN [m |-> [c EXCEPT !.KEYBOARD[t.cpos] = FALSE],
          t |-> [t EXCEPT !.cpos = IF t.cpos = 15 THEN -1 ELSE t.cpos + 1,
                          !.kpos = IF t.cpos = 15 /\ t.keys # <<>>
                                   THEN 0 ELSE -1]]
    ELSE [m |-> [c EXCEPT !.KEYBOARD[t.keys[t.kpos + 1]] = TRUE],
          t |-> [t EXCEPT !.kpos = IF t.kpos + 1 = Len(t.keys)
                                   THEN -1 ELSE t.kpos + 1]]

\* LD Vx, K; then a jump to itself: the instruction execution proceeds to.
WaitRoms ==
    {ProgramBytes(<<EncXKK(15, x, 10), EncNNN(1, WordAddr(1))>>) : x \in {0, 15}}
    \cup {ProgramBytes(<<EncXKK(15, 0, 10), EncXKK(15, 15, 10),
                          EncNNN(1, WordAddr(0))>>)}

\* What the driver's PressedKeys() returns in a frame.
WaitSnapshots == {<<>>, <<3>>, <<15>>, <<15, 3>>}

\* cpu := new(Chip8); cpu.Initialize(rom)
InitializeWait ==
    /\ ~Initialized
    /\ \E rom \in WaitRoms :
          /\ cpu' = [Initialize(cpu, Fonts, rom) EXCEPT !.KEYBOARD = NoKeys]
          /\ trace' = <<EntryArg("Initialize", rom, cpu)>>
    /\ prev' = cpu
    /\ UNCHANGED task

\* go cpu.Run(): the next statement of the execution loop.
RunWait ==
    /\ Initialized
    /\ Running(cpu)
    /\ cpu' = RunStatement(cpu, task).m
    /\ task' = RunStatement(cpu, task).t
    /\ UNCHANGED <<prev, trace>>

\* A frame of the main loop begins: UpdateKeyboard is called on a snapshot.
FrameWait ==
    /\ Initialized
    /\ Running(cpu)
    /\ task.cpos = -1
    /\ task.kpos = -1
    /\ \E keys \in WaitSnapshots : task' = [task EXCEPT !.keys = keys, !.cpos = 0]
    /\ UNCHANGED <<cpu, prev, trace>>

\* The next statement of the UpdateKeyboard under way.
KeyboardWait ==
    /\ Initialized
    /\ Running(cpu)
    /\ task.cpos >= 0 \/ task.kpos >= 0
    /\ cpu' = UpdateKeyboardStatement(cpu, task).m
    /\ task' = UpdateKeyboardStatement(cpu, task).t
    /\ UNCHANGED <<prev, trace>>

NextWait == InitializeWait \/ RunWait \/ FrameWait \/ KeyboardWait

\* Each of the two tasks keeps running: the goroutine of Run and the main
\* loop are scheduled by the Go runtime on their own threads.  The loop of
\* Fx0A spins without a pause while the latch is rewritten once per frame,
\* so it is not taken to miss for ever a latch that holds a key again and
\* again (strong fairness).
SpecWait ==
    /\ Init
    /\ [][NextWait]_vars
    /\ SF_vars(RunWait)
    /\ WF_vars(FrameWait \/ KeyboardWait)

\* The execution loop is inside the loop of an Fx0A.
Waiting == Initialized /\ task.wpos = "wait"

\* The execution loop is between two Steps, with the machine running.
Proceeding == Initialized /\ task.wpos = "run" /\ Running(cpu)

\* From some frame on, every snapshot holds a key.
KeyHeldFromSomeFrameOn == <>[](task.keys # <<>>)

\* C31 (as claimed): run as concurrent tasks, with some key held in every
\* snapshot from some frame on, an Fx0A that waits eventually completes and
\* the execution loop goes on to the next instruction.
C31_WaitCompletes == KeyHeldFromSomeFrameOn => (Waiting ~> Proceeding)

\* The way an Fx0A fails to complete that needs no unlucky schedule for
\* ever: its assignment never finds the key list empty.
C31_ReadFindsKey == ~(Initialized /\ task.wpos = "run" /\ cpu.halt = IndexPanic)

\* ------------------------------------------------------ the guard of Fetch

\* C32: Fetch returns no instruction read from below the program base: a
\* Step that starts with PC < 0x200 ends in the panic "CORRUPTED PROGRAM
\* COUNTER" with PC and every other field as they were; one that starts with
\* 0x200 <= PC <= 4094 fetches RAM[PC] * 256 + RAM[PC + 1] and Fetch leaves
\* PC + 2 and nothing else changed.
C32_FetchGuard ==
    (Initialized /\ Last.op = "Step") =>
        /\ prev.PC < CHIP8_PROGRAM_START =>
              /\ Last.instr = -1
              /\ Fetch(prev).ret = -1
              /\ cpu = [prev EXCEPT !.halt = CorruptedPC]
        /\ (prev.PC >= CHIP8_PROGRAM_START /\ prev.PC <= 4094) =>
              /\ Last.instr = prev.RAM[prev.PC] * 256 + prev.RAM[prev.PC + 1]
              /\ Fetch(prev).ret = Last.instr
              /\ Fetch(prev).m = [prev EXCEPT !.PC = prev.PC + 2]
              /\ ~KnownOpcode(Last.instr) => cpu = Fetch(prev).m

\* A jump had set PC to an address below the base where memory holds a
\* non-zero byte (a font byte), and the next Step panicked without fetching.
C32_Witness ==
    /\ Initialized
    /\ Last.op = "Step"
    /\ prev.PC < CHIP8_PROGRAM_START
    /\ prev.RAM[prev.PC] # 0
    /\ Last.instr = -1
    /\ cpu.halt = CorruptedPC
    /\ cpu.PC = prev.PC

\* A jump had set PC to 4094 and the next Step fetched the last word of
\* memory.
C32_WitnessTop ==
    /\ Initialized
    /\ Last.op = "Step"
    /\ prev.PC = 4094
    /\ Last.instr = 0
    /\ cpu.PC = 4096

\* ------------------------------------------- the latch read back

\* The keys of the snapshot the last operation, an UpdateKeyboard, was given.
Snapshot == {Last.arg[i] : i \in 1..Len(Last.arg)}

\* The part of C33 about IsKeyPressed and IsAnyKeyPressed.
C33_LatchBits ==
    (Initialized /\ Last.op = "UpdateKeyboard") =>
        /\ \A k \in 0..15 : IsKeyPressed(cpu, k) <=> k \in Snapshot
        /\ IsAnyKeyPressed(cpu) <=> Snapshot # {}

\* C33 (as claimed): after UpdateKeyboard(S), whatever the latch held
\* before, IsKeyPressed(k) is true exactly for the k in S, IsAnyKeyPressed()
\* is true iff S is not empty, and PressedKeys() returns the elements of S,
\* each once, in ascending order.
C33_LatchRoundTrip ==
    (Initialized /\ Last.op = "UpdateKeyboard") =>
        LET keys == PressedKeys(cpu)
        IN  /\ \A k \in 0..15 : IsKeyPressed(cpu, k) <=> k \in Snapshot
            /\ IsAnyKeyPressed(cpu) <=> Snapshot # {}
            /\ {keys[i] : i \in 1..Len(keys)} = Snapshot
            /\ \A i, j \in 1..Len(keys) : i < j => keys[i] < keys[j]

====
